---- MODULE Spec2Model ----
(***************************************************************************)
(* Model of the session-keyed streaming router of src/main.ts.             *)
(*                                                                         *)
(* src/main.ts holds several revisions of the HTTP layer one after the     *)
(* other; the three that differ in behaviour are modelled, selected by     *)
(* the variable `variant`:                                                 *)
(*   "send"   lines 251-296 (and, identically, 649-694): callbacks write   *)
(*            with t.send, fallback is runChatLLM;                         *)
(*   "tokens" lines 447-487: id taken from the body only, 400 on an empty  *)
(*            id, only onAssistantToken is passed, frames go through       *)
(*            writeFrame, fallback is runWithTools;                        *)
(*   "frame"  lines 947-1024: root route awaits the handshake, ids are     *)
(*            resolved with ??, frames go through writeFrame.              *)
(*                                                                         *)
(* SSEServerTransport is library code.  Of it the model keeps: a frame     *)
(* given to send() reaches the client only while the connection is open;   *)
(* close() ends the response, whose "close" event is emitted later;        *)
(* handlePostMessage may invoke the callbacks it was given, in any order,  *)
(* over several turns of the event loop, and then resolves.                *)
(*                                                                         *)
(* The tool calls of src/tools.ts and runWithTools of src/main.ts are the  *)
(* second part (ToolSpec): one session, one inbound message and the one    *)
(* operation run for it, kept in the variable `tool`.  Texts are sequences *)
(* of their parts.  Of fetch (undici) the model keeps: it resolves with    *)
(* the response, rejects on a network failure, and rejects with the abort  *)
(* reason when its signal is aborted, also while the body is being read.   *)
(***************************************************************************)
EXTENDS Integers, Sequences, FiniteSets, TLC

\* ------------------------------------------------------------- bounds
MaxChan   == 2   \* transports created during a run
MaxMsg    == 2   \* POST /messages requests during a run
MaxEvents == 2   \* provider events (tokens, messages, tool results) during a run

Chan == 1..MaxChan
Msg  == 1..MaxMsg

\* ------------------------------------------------------------- values
NoChan    == 0               \* streams.get(id) === undefined
Undefined == "undefined"     \* a request field that is not set

Variants == {"send", "tokens", "frame"}

SseIds == {"a", "b"}         \* ids clients pass to GET /sse?id=

\* t.sessionId: a fresh id per transport (randomUUID in the library)
SessionIdOf(c) == "u" \o ToString(c)

AllIds == SseIds \cup {SessionIdOf(c) : c \in Chan}
Keys   == AllIds \cup {""}

\* request bodies' content, with the characters of each string
Contents == {Undefined, " ", " hi "}
Chars(s) ==
  CASE s = ""     -> <<>>
    [] s = " "    -> <<" ">>
    [] s = " hi " -> <<" ", "h", "i", " ">>
    [] OTHER      -> <<"u", "n", "d", "e", "f", "i", "n", "e", "d">>

VARIABLES
  variant,     \* which revision of the HTTP layer runs
  streams,     \* const streams = new Map<string, SSEServerTransport>()
  chState,     \* per GET request's response: "none", "rejected" (400 sent),
               \*   "open", "closing" (ended by t.close()), "closed" ("close" emitted)
  chSid,       \* per transport: the key its route handler uses
  chListener,  \* per transport: res.on("close", ...) has been registered
  frames,      \* per transport: the frames delivered to the client, in order
  msg,         \* per POST /messages request: the handler's locals and position
  connectPc,   \* per transport: position of the root route's awaited handshake
  events,      \* provider events delivered so far, over all requests
  tool         \* the tool call in progress: runWithTools / runChatLLM of the
               \*   fallback, or a handler registered with mcp.tool

vars == <<variant, streams, chState, chSid, chListener, connectPc, frames, msg, events,
          tool>>

\* ------------------------------------------------------------- JS helpers
\* x || y on strings: undefined and "" are falsy
Or(x, y) == IF x = Undefined \/ x = "" THEN y ELSE x
\* x ?? y: only undefined (or null) falls through
Nullish(x, y) == IF x = Undefined THEN y ELSE x

IsSpace(ch) == ch = " "

RECURSIVE TrimStart(_)
TrimStart(s) ==
  IF s = <<>> THEN s
  ELSE IF IsSpace(Head(s)) THEN TrimStart(Tail(s)) ELSE s

RECURSIVE TrimEnd(_)
TrimEnd(s) ==
  IF s = <<>> THEN s
  ELSE IF IsSpace(s[Len(s)]) THEN TrimEnd(SubSeq(s, 1, Len(s) - 1)) ELSE s

\* String.prototype.trim
Trim(s) == TrimEnd(TrimStart(s))

\* String(req.body.content || "").trim() is truthy
HasText(content) == Trim(Chars(Or(content, ""))) # <<>>

\* ------------------------------------------------------------- Map<string, transport>
\* a lookup that answers with the transport of another key when there is one
MapGetOther(map, k) ==
  IF map[k] # NoChan /\ \E j \in Keys : map[j] \notin {NoChan, map[k]}
    THEN CHOOSE c \in Chan : c # map[k] /\ \E j \in Keys : map[j] = c
    ELSE map[k]

MapGet(map, k)    == map[k]
MapHas(map, k)    == map[k] # NoChan
MapSet(map, k, c) == [map EXCEPT ![k] = c]
MapDelete(map, k) == [map EXCEPT ![k] = NoChan]

\* ------------------------------------------------------------- transport
\* t.send(frame): the frame is delivered only on an open connection
Send(fr, st, c, frame) ==
  IF st[c] = "open" THEN [fr EXCEPT ![c] = Append(@, frame)] ELSE fr

\* t.close(): ends the response; its "close" event follows later
Close(st, c) ==
  IF st[c] = "open" THEN [st EXCEPT ![c] = "closing"] ELSE st

\* a frame on the wire, tagged with the request it answers; of its content the
\* model keeps whether it is the fallback's reply ({role: "assistant", content:
\* reply}), and then the reply that runChatLLM / runWithTools returned
Frame(m, kind, done) ==
  [m |-> m, fallback |-> kind = "fallback", done |-> done,
   content |-> IF kind = "fallback" THEN tool.out.val ELSE <<>>]

\* ------------------------------------------------------------- initial state
IdleMsg ==
  [pc |-> "idle", id |-> "", t |-> NoChan, saw |-> FALSE, content |-> Undefined,
   status |-> 0, produced |-> {}, late |-> FALSE]

\* a handler that has returned (or whose promise rejected): its locals are gone;
\* the response status and whether it wrote to a closed transport are kept
Returned(pc, status, late) == [IdleMsg EXCEPT !.pc = pc, !.status = status, !.late = late]

\* a request answered before any await: the id it carried and the status sent
Rejected(id, status) == [IdleMsg EXCEPT !.pc = "done", !.id = id, !.status = status]

\* a response body, by what the code reads of it
NoBody ==
  [json |-> FALSE, text |-> "", hasList |-> FALSE, list |-> <<>>,
   apiKey |-> Undefined, accessToken |-> Undefined, access_token |-> Undefined,
   cur |-> FALSE]

NoOutcome == [kind |-> "none", val |-> <<>>]

\* no tool call has been started
NoTool ==
  [op |-> "none", m |-> 0, pc |-> "idle", fn |-> "", arg |-> Undefined,
   timer |-> "none", status |-> 0, body |-> NoBody, toolResult |-> <<>>,
   cred |-> <<>>, call |-> [name |-> "", args |-> "valid", content |-> Undefined],
   second |-> Undefined, out |-> NoOutcome, calls |-> <<>>, provider |-> 0,
   late |-> FALSE]

Init ==
  /\ variant \in Variants
  /\ streams = [k \in Keys |-> NoChan]
  /\ chState = [c \in Chan |-> "none"]
  /\ chSid = [c \in Chan |-> ""]
  /\ chListener = [c \in Chan |-> FALSE]
  /\ connectPc = [c \in Chan |-> "none"]
  /\ frames = [c \in Chan |-> <<>>]
  /\ msg = [m \in Msg |-> IdleMsg]
  /\ events = 0
  /\ tool = NoTool

\* transports and requests are numbered in order of creation
NextChan(c) == chState[c] = "none" /\ \A d \in Chan : d < c => chState[d] # "none"
NextMsg(m)  == msg[m].pc = "idle" /\ \A n \in Msg : n < m => msg[n].pc # "idle"

\* ------------------------------------------------------------- GET routes
\* a listener that flips the entry instead of deleting it
OnCloseToggle(map, c) ==
  IF ~chListener[c] THEN map
  ELSE IF MapHas(map, chSid[c]) THEN MapDelete(map, chSid[c])
  ELSE MapSet(map, chSid[c], c)

\* the listener of res.on("close", () => streams.delete(key))
OnClose(map, c) == IF chListener[c] THEN MapDelete(map, chSid[c]) ELSE map

\* streams.set(key, t) of the GET handlers
Register(map, k, c) == MapSet(map, k, c)

\* app.get("/"): "send" registers at once; "frame" first awaits mcp.connect(t)
GetRoot(c) ==
  /\ variant \in {"send", "frame"}
  /\ NextChan(c)
  /\ chState' = [chState EXCEPT ![c] = "open"]
  /\ chSid' = [chSid EXCEPT ![c] = SessionIdOf(c)]
  /\ IF variant = "send"
       THEN /\ streams' = Register(streams, SessionIdOf(c), c)
            /\ chListener' = [chListener EXCEPT ![c] = TRUE]
            /\ UNCHANGED connectPc
       ELSE /\ connectPc' = [connectPc EXCEPT ![c] = "await"]
            /\ UNCHANGED <<streams, chListener>>
  /\ UNCHANGED <<tool, variant, frames, msg, events>>

\* "frame": await mcp.connect(t) resolved; streams.set, then res.on("close")
RootConnected(c) ==
  /\ connectPc[c] = "await"
  /\ connectPc' = [connectPc EXCEPT ![c] = "done"]
  /\ streams' = Register(streams, chSid[c], c)
  /\ chListener' = [chListener EXCEPT ![c] = TRUE]
  /\ UNCHANGED <<tool, variant, chState, chSid, frames, msg, events>>

\* "frame": await mcp.connect(t) rejected; the catch block returns
RootConnectFailed(c) ==
  /\ connectPc[c] = "await"
  /\ connectPc' = [connectPc EXCEPT ![c] = "failed"]
  /\ UNCHANGED <<tool, variant, streams, chState, chSid, chListener, frames, msg, events>>

\* ids are named in order of first use: "b" is not used before "a"
FreshOrder(id) == id = "b" => \E d \in Chan : chSid[d] = "a"

\* app.get("/sse"); every GET request has a response object of its own, so a
\* request answered 400 takes a slot of Chan as well
GetSse(c, raw) ==
  LET id == Or(raw, "") IN
  /\ NextChan(c)
  /\ FreshOrder(id)
  /\ IF id = ""
       THEN /\ chState' = [chState EXCEPT ![c] = "rejected"]
            /\ UNCHANGED <<streams, chSid, chListener>>
       ELSE /\ chState' = [chState EXCEPT ![c] = "open"]
            /\ chSid' = [chSid EXCEPT ![c] = id]
            /\ streams' = Register(streams, id, c)
            /\ chListener' = [chListener EXCEPT ![c] = TRUE]
  /\ UNCHANGED <<tool, variant, connectPc, frames, msg, events>>

\* the client drops the connection: the response's "close" event is emitted
ClientClose(c) ==
  /\ chState[c] = "open"
  /\ chState' = [chState EXCEPT ![c] = "closed"]
  /\ streams' = OnClose(streams, c)
  /\ UNCHANGED <<tool, variant, chSid, chListener, connectPc, frames, msg, events>>

\* the "close" event of a response ended by t.close()
CloseEvent(c) ==
  /\ chState[c] = "closing"
  /\ chState' = [chState EXCEPT ![c] = "closed"]
  /\ streams' = OnClose(streams, c)
  /\ UNCHANGED <<tool, variant, chSid, chListener, connectPc, frames, msg, events>>

\* ------------------------------------------------------------- POST /messages
Request(qs, qi, bs, bi) == [qSessionId |-> qs, qId |-> qi, bSessionId |-> bs, bId |-> bi]

\* const id = String(...) of the three revisions
ResolveId(v, req) ==
  CASE v = "send"   -> Or(Or(Or(Or(req.qSessionId, req.qId), req.bSessionId), req.bId), "")
    [] v = "tokens" -> Or(req.bId, "")
    [] OTHER        -> Nullish(Nullish(Nullish(Nullish(req.qSessionId, req.qId),
                                               req.bSessionId), req.bId), "")

\* the values a client may put in a request field
FieldValues == {Undefined, ""} \cup SseIds \cup {chSid[c] : c \in Chan}

\* request shapes: one field set, or a query sessionId (empty or not) before a
\* body id
Requests ==
  {Request(x, Undefined, Undefined, Undefined) : x \in FieldValues}
    \cup {Request(Undefined, x, Undefined, Undefined) : x \in FieldValues}
    \cup {Request(Undefined, Undefined, x, Undefined) : x \in FieldValues}
    \cup {Request(Undefined, Undefined, Undefined, x) : x \in FieldValues}
    \cup {Request(q, Undefined, Undefined, x) : q \in {""} \cup SseIds, x \in FieldValues}

\* app.post("/messages") up to its first await
PostMessage(m, req, content) ==
  LET id == ResolveId(variant, req)
      t  == MapGet(streams, id)
      status == IF variant = "tokens" /\ id = "" THEN 400
                ELSE IF t = NoChan THEN 202 ELSE 0
  IN
  /\ NextMsg(m)
  /\ msg' = [msg EXCEPT ![m] =
       IF status = 0
         THEN [@ EXCEPT !.id = id, !.t = t, !.content = content, !.pc = "primary"]
         ELSE Rejected(id, status)]
  /\ UNCHANGED <<tool, variant, streams, chState, chSid, chListener, connectPc, frames,
                 events>>

\* the callbacks each revision passes to t.handlePostMessage
Callbacks(v) == IF v = "tokens" THEN {"token"} ELSE {"token", "message", "tool"}

\* writeFrame(t, data, {last}): t.send({...data, done: last}); if (last) t.close()
writeFrame(fr, st, c, m, kind, last) ==
  [frames  |-> Send(fr, st, c, Frame(m, kind, last)),
   chState |-> IF last THEN Close(st, c) ELSE st]

\* t.send({..., done}) of the "send" revision's callbacks and fallback
sendFrame(fr, st, c, m, kind, done) ==
  [frames |-> Send(fr, st, c, Frame(m, kind, done)), chState |-> st]

Emit(v, fr, st, c, m, kind, done) ==
  IF v = "send" THEN sendFrame(fr, st, c, m, kind, done)
  ELSE writeFrame(fr, st, c, m, kind, done)

\* saw = true (sawAssistantTokens, sawResponse) in a callback
MarkSeen(saw) == TRUE

\* during handlePostMessage the provider produces a token, an assistant
\* message or a tool result; the matching callback runs if one was passed
ProviderEvent(m, kind, last) ==
  LET r    == msg[m]
      done == IF kind = "token" THEN last ELSE TRUE
      out  == Emit(variant, frames, chState, r.t, m, kind, done)
      heard == kind \in Callbacks(variant)
  IN
  /\ r.pc = "primary"
  /\ events < MaxEvents
  /\ events' = events + 1
  /\ kind = "token" \/ last
  /\ msg' = [msg EXCEPT ![m] =
       [@ EXCEPT !.produced = @ \cup {kind},
                 !.saw = IF heard THEN MarkSeen(@) ELSE @,
                 !.late = @ \/ (heard /\ chState[r.t] # "open")]]
  /\ frames' = IF heard THEN out.frames ELSE frames
  /\ chState' = IF heard THEN out.chState ELSE chState
  /\ UNCHANGED <<tool, variant, streams, chSid, chListener, connectPc>>

\* if (!saw && String(req.body.content || "").trim())
FallbackNeeded(saw, content) == ~saw /\ HasText(content)

\* await t.handlePostMessage(...) resolved; the fallback test follows
PrimaryReturn(m) ==
  /\ msg[m].pc = "primary"
  /\ msg' = [msg EXCEPT ![m] =
       IF FallbackNeeded(@.saw, @.content)
         THEN [@ EXCEPT !.pc = "fallback"]
         ELSE Returned("done", 0, @.late)]
  /\ UNCHANGED <<tool, variant, streams, chState, chSid, chListener, connectPc, frames,
                 events>>

\* a handler that goes back to waiting for callbacks after the fallback's reply
FallbackResolvedReenter(m) ==
  LET r   == msg[m]
      out == Emit(variant, frames, chState, r.t, m, "fallback", TRUE)
  IN
  /\ r.pc = "fallback"
  /\ msg' = [msg EXCEPT ![m] = [@ EXCEPT !.pc = "primary", !.saw = FALSE]]
  /\ frames' = out.frames
  /\ chState' = out.chState
  /\ UNCHANGED <<tool, variant, streams, chSid, chListener, connectPc, events>>

\* a handler whose reply is written only when no other request is in progress
FallbackResolvedAlone(m) ==
  LET r   == msg[m]
      out == Emit(variant, frames, chState, r.t, m, "fallback", TRUE)
  IN
  /\ r.pc = "fallback"
  /\ \A n \in Msg \ {m} : msg[n].pc \notin {"primary", "fallback"}
  /\ msg' = [msg EXCEPT ![m] = Returned("done", 0, @.late \/ chState[r.t] # "open")]
  /\ frames' = out.frames
  /\ chState' = out.chState
  /\ UNCHANGED <<tool, variant, streams, chSid, chListener, connectPc, events>>

\* await runChatLLM(...) / runWithTools(...) resolved with the reply
FallbackResolved(m) ==
  LET r   == msg[m]
      out == Emit(variant, frames, chState, r.t, m, "fallback", TRUE)
  IN
  /\ r.pc = "fallback"
  /\ msg' = [msg EXCEPT ![m] = Returned("done", 0, @.late \/ chState[r.t] # "open")]
  /\ frames' = out.frames
  /\ chState' = out.chState
  /\ UNCHANGED <<tool, variant, streams, chSid, chListener, connectPc, events>>

\* the completion provider threw: the handler's promise rejects
FallbackRejected(m) ==
  /\ msg[m].pc = "fallback"
  /\ msg' = [msg EXCEPT ![m] = Returned("failed", 0, @.late)]
  /\ UNCHANGED <<tool, variant, streams, chState, chSid, chListener, connectPc, frames,
                 events>>

\* ------------------------------------------------------------- specification
Next ==
  \/ \E c \in Chan : GetRoot(c)
  \/ \E c \in Chan : RootConnected(c)
  \/ \E c \in Chan : RootConnectFailed(c)
  \/ \E c \in Chan, raw \in {Undefined, ""} \cup SseIds : GetSse(c, raw)
  \/ \E c \in Chan : ClientClose(c)
  \/ \E c \in Chan : CloseEvent(c)
  \/ \E m \in Msg, req \in Requests, content \in Contents : PostMessage(m, req, content)
  \/ \E m \in Msg, kind \in {"token", "message", "tool"}, last \in BOOLEAN :
       ProviderEvent(m, kind, last)
  \/ \E m \in Msg : PrimaryReturn(m)
  \/ \E m \in Msg : FallbackResolved(m)
  \/ \E m \in Msg : FallbackRejected(m)

Spec == Init /\ [][Next]_vars

\* ------------------------------------------------------------- src/tools.ts: values
MaxList == 6   \* longest EmployeeMasterData list an upstream response carries

Top == 5       \* employeeList.slice(0, 5)

Statuses == {200, 401, 500}

\* res.ok
Ok(status) == status >= 200 /\ status <= 299

\* a string value that is truthy
Truthy(x) == x # Undefined /\ x # ""

Min(a, b) == IF a < b THEN a ELSE b

\* list entries, and the lists a response may carry
Item(i) == "e" \o ToString(i)
Asc(n)  == [i \in 1..n |-> Item(i)]
Desc(n) == [i \in 1..n |-> Item(n + 1 - i)]
Lists   == {Asc(n) : n \in 0..MaxList} \cup {Desc(n) : n \in 0..MaxList}

\* a slice that keeps the last entries instead of the first
SliceTail(s, from, to) ==
  IF Len(s) <= to - from THEN s ELSE SubSeq(s, Len(s) - (to - from) + 1, Len(s))

\* Array.prototype.slice(from, to), 0 <= from <= to
Slice(s, from, to) == SubSeq(s, from + 1, Min(to, Len(s)))

\* JSON.stringify of an array: its entries in order between brackets
Stringify(list) == <<"[">> \o list \o <<"]">>

\* the bodies each endpoint may answer with
JsonBody == [NoBody EXCEPT !.json = TRUE, !.text = "body"]
TextBody == [NoBody EXCEPT !.text = "body"]
WeatherBodies == {TextBody, JsonBody, [JsonBody EXCEPT !.cur = TRUE]}
OAuthBodies ==
  {TextBody} \cup {[JsonBody EXCEPT !.access_token = x] : x \in {Undefined, "", "tok"}}
ApiKeyBodies ==
  {TextBody} \cup {[JsonBody EXCEPT !.apiKey = k, !.accessToken = a] :
                     k \in {Undefined, "key"}, a \in {Undefined, "tok"}}
PostBodies ==
  {TextBody, JsonBody} \cup {[JsonBody EXCEPT !.hasList = TRUE, !.list = l] : l \in Lists}

Bodies(fn) ==
  CASE fn = "getWeather"           -> WeatherBodies
    [] fn = "fetchPSToken"         -> OAuthBodies
    [] fn = "getPSTokenWithApiKey" -> ApiKeyBodies
    [] OTHER                       -> PostBodies

AllBodies == WeatherBodies \cup OAuthBodies \cup ApiKeyBodies \cup PostBodies

\* how an awaited call ends: return with a value, or throw an Error with a message
Value(v) == [kind |-> "value", val |-> v]
Throw(message) == [kind |-> "error", val |-> message]

\* messages of the errors raised below the functions of tools.ts
FetchFailed == <<"fetch failed">>               \* undici: the request did not complete
TimedOut    == <<"Request timed out">>          \* new Error("Request timed out")
SyntaxError == <<"Unexpected token">>           \* res.json() / JSON.parse on malformed text
TypeError   == <<"undefined is not iterable">>  \* destructuring a missing current_condition

\* try { ... } catch (err) { throw new Error(`<prefix>${err.message}`) }
Rethrow(prefix, r) == IF r.kind = "error" THEN Throw(<<prefix>> \o r.val) ELSE r

\* how the awaits of one request ended: "neterror" (fetch rejected), "abortFetch"
\* (aborted while fetch was pending), "abortBody" (aborted while the body was
\* being read), "done" (response and body received)
Events == {"neterror", "abortFetch", "abortBody", "done"}

\* `${txt}` of const txt = await res.text().catch(() => "")
Txt(ev, body) == IF ev = "abortBody" THEN "" ELSE body.text

\* ------------------------------------------------------------- src/tools.ts: functions
\* getWeather(city) (and fetchWeather of main.ts): no signal is passed to fetch
getWeather(city, ev, status, body) ==
  IF ev = "neterror" THEN Throw(FetchFailed)
  ELSE IF ~Ok(status) THEN Throw(<<"wttr responded ", ToString(status)>>)
  ELSE IF ~body.json THEN Throw(SyntaxError)
  ELSE IF ~body.cur THEN Throw(TypeError)
  ELSE Value(<<"Weather in ", city>>)

\* a try block whose abort carries no reason: the timeout reads as a failed fetch
fetchPSTokenTryNoReason(ev, status, body) ==
  IF ev \in {"neterror", "abortFetch"} THEN Throw(FetchFailed)
  ELSE IF ~Ok(status)
    THEN Throw(<<"PeopleStrong responded ", ToString(status), ": ", Txt(ev, body)>>)
  ELSE IF ev = "abortBody" THEN Throw(FetchFailed)
  ELSE IF ~body.json THEN Throw(SyntaxError)
  ELSE IF ~Truthy(body.access_token) THEN Throw(<<"No access_token in response">>)
  ELSE Value(<<body.access_token>>)

\* the try block of fetchPSToken
fetchPSTokenTry(ev, status, body) ==
  IF ev = "neterror" THEN Throw(FetchFailed)
  ELSE IF ev = "abortFetch" THEN Throw(TimedOut)
  ELSE IF ~Ok(status)
    THEN Throw(<<"PeopleStrong responded ", ToString(status), ": ", Txt(ev, body)>>)
  ELSE IF ev = "abortBody" THEN Throw(TimedOut)
  ELSE IF ~body.json THEN Throw(SyntaxError)
  ELSE IF ~Truthy(body.access_token) THEN Throw(<<"No access_token in response">>)
  ELSE Value(<<body.access_token>>)

fetchPSToken(ev, status, body) ==
  Rethrow("fetchPSToken failed: ", fetchPSTokenTry(ev, status, body))

\* the try block of getPSTokenWithApiKey
getPSTokenWithApiKeyTry(ev, status, body) ==
  IF ev = "neterror" THEN Throw(FetchFailed)
  ELSE IF ev = "abortFetch" THEN Throw(TimedOut)
  ELSE IF ~Ok(status) THEN Throw(<<"HTTP ", ToString(status), ": ", Txt(ev, body)>>)
  ELSE IF ev = "abortBody" THEN Throw(TimedOut)
  ELSE IF ~body.json THEN Throw(SyntaxError)
  ELSE Value(<<Nullish(body.apiKey, "(no apiKey in response)"),
               Nullish(body.accessToken, "(no accessToken in response)")>>)

getPSTokenWithApiKey(ev, status, body) ==
  Rethrow("getPSTokenWithApiKey failed: ", getPSTokenWithApiKeyTry(ev, status, body))

\* employeeList of psPost: the nested array if there is one, [] otherwise
EmployeeList(body) == IF body.hasList THEN body.list ELSE <<>>

\* the try block of psPost
psPostTry(ev, status, body) ==
  IF ev = "neterror" THEN Throw(FetchFailed)
  ELSE IF ev = "abortFetch" THEN Throw(TimedOut)
  ELSE IF ~Ok(status) THEN Throw(<<"API error ", ToString(status), ": ", Txt(ev, body)>>)
  ELSE IF ev = "abortBody" THEN Throw(TimedOut)
  ELSE IF ~body.json THEN Throw(SyntaxError)
  ELSE Value(Stringify(Slice(EmployeeList(body), 0, Top)))

\* the text psPost puts in toolResult in its catch block
PostErrorText(message) == <<"Error fetching tokens - ">> \o message

\* psPost returns toolResult on every path
psPost(ev, status, body) ==
  LET r == psPostTry(ev, status, body) IN
  IF r.kind = "error" THEN Value(PostErrorText(r.val)) ELSE r

\* the function of tools.ts that issued the request
CallOutcome(fn, arg, ev, status, body) ==
  CASE fn = "getWeather"           -> getWeather(arg, ev, status, body)
    [] fn = "fetchPSToken"         -> fetchPSToken(ev, status, body)
    [] fn = "getPSTokenWithApiKey" -> getPSTokenWithApiKey(ev, status, body)
    [] OTHER                       -> psPost(ev, status, body)

\* only the credential exchanges arm a timer
TimedCredOnly(fn) == fn \in {"fetchPSToken", "getPSTokenWithApiKey"}

\* functions that arm a timer next to their request
Timed(fn) == fn # "getWeather"
CredFns   == {"fetchPSToken", "getPSTokenWithApiKey"}

\* ------------------------------------------------------------- tool calls
\* the operations a run makes: the fallback's helper of each revision, and the
\* handlers registered with mcp.tool that reach src/tools.ts
FallbackOps == {"runChatLLM", "runWithTools"}
DirectOps   == {"getWeather", "getPSToken", "getEmployeeDetails"}

\* the first function of tools.ts a registered handler calls
FirstFn(op) ==
  CASE op = "getWeather" -> "getWeather"
    [] op = "getPSToken" -> "fetchPSToken"
    [] OTHER             -> "getPSTokenWithApiKey"

\* the names runWithTools compares call.function.name with
KnownTools(v) == IF v = "tokens" THEN {"getWeather"} ELSE {"getWeather", "getPSToken"}

\* names the provider may put in a tool call: the two of runWithTools, a tool
\* registered with mcp.tool only, and a name nobody registered
ToolNames == {"getWeather", "getPSToken", "getEmployeeDetails", "nope"}

\* call.function.arguments: JSON that fits the declared parameters, JSON that
\* does not (the required property is missing), text that is not JSON
ArgKinds == {"valid", "wrongType", "notJson"}

\* the first message of the provider's reply
Reply(name, args, content) == [name |-> name, args |-> args, content |-> content]
Replies ==
  {Reply("", "valid", c) : c \in {Undefined, "text"}}
    \cup {Reply(n, a, Undefined) : n \in ToolNames, a \in ArgKinds}

\* the property destructured from JSON.parse(call.function.arguments)
ArgOf(args) == IF args = "valid" THEN "Delhi" ELSE Undefined

\* completion.choices[0].message.content ?? "(no answer)"
Answer(content) == Value(<<Nullish(content, "(no answer)")>>)

\* the text runWithTools hands to the provider when fetchPSToken threw
TokenErrorText(message) == <<"Error fetching token - ">> \o message

\* a function of tools.ts is entered: timer armed (if it has one), fetch issued
StartFetch(t, fn, arg) ==
  [t EXCEPT !.pc = "fetch", !.fn = fn, !.arg = arg, !.status = 0, !.body = NoBody,
            !.timer = IF Timed(fn) THEN "armed" ELSE "none"]

\* the operation's promise settles
Finish(t, r) ==
  [t EXCEPT !.pc = IF r.kind = "error" THEN "thrown" ELSE "returned", !.out = r]

\* the tool's result is returned as the answer, the provider is not asked again
SecondSkip(t, text) == Finish([t EXCEPT !.toolResult = text], Value(text))

\* runWithTools asks the provider again, with the tool's result
Second(t, text) == [t EXCEPT !.pc = "second", !.toolResult = text, !.provider = @ + 1]

\* a caller that issues the credential exchange again after it failed
ContinueRetry(t, r) ==
  IF t.fn = "getPSTokenWithApiKey" /\ r.kind = "error" /\ Len(t.calls) < 2
    THEN StartFetch(t, "getPSTokenWithApiKey", t.arg)
  ELSE IF t.fn = "getPSTokenWithApiKey"
    THEN StartFetch([t EXCEPT !.cred = r.val], "psPost", t.arg)
  ELSE Finish(t, r)

\* the caller's code after the awaited function of tools.ts ended with r
Continue(t, r) ==
  CASE t.op = "runWithTools" /\ t.fn = "getWeather" ->
         IF r.kind = "error" THEN Finish(t, r) ELSE Second(t, r.val)
    [] t.op = "runWithTools" /\ t.fn = "fetchPSToken" ->
         Second(t, IF r.kind = "error" THEN TokenErrorText(r.val) ELSE r.val)
    [] t.op = "getEmployeeDetails" /\ t.fn = "getPSTokenWithApiKey" ->
         IF r.kind = "error"
           THEN Finish(t, Rethrow("getEmployeeDetails failed: ", r))
           ELSE StartFetch([t EXCEPT !.cred = r.val], "psPost", t.arg)
    [] t.op = "getEmployeeDetails" /\ t.fn = "psPost" ->
         Finish(t, Rethrow("getEmployeeDetails failed: ", r))
    [] OTHER -> Finish(t, r)

\* clearTimeout at the end of the try block instead of in finally: a request
\* that fails below HTTP leaves its timer armed
SettleLeak(t, ev) ==
  LET r == CallOutcome(t.fn, t.arg, ev, t.status, t.body)
      timer == IF ~Timed(t.fn) THEN "none" ELSE IF ev = "neterror" THEN "armed" ELSE "cleared"
      call == [fn |-> t.fn, ev |-> ev, status |-> t.status, body |-> t.body, out |-> r,
               timer |-> timer]
  IN Continue([t EXCEPT !.calls = Append(@, call), !.timer = timer], r)

\* the request in flight ends with event ev: the function's result is computed,
\* its finally block clears the timer, and the caller continues.  The call is
\* logged with the state its timer is left in
Settle(t, ev) ==
  LET r == CallOutcome(t.fn, t.arg, ev, t.status, t.body)
      timer == IF Timed(t.fn) THEN "cleared" ELSE "none"
      call == [fn |-> t.fn, ev |-> ev, status |-> t.status, body |-> t.body, out |-> r,
               timer |-> timer]
  IN Continue([t EXCEPT !.calls = Append(@, call), !.timer = timer], r)

Router == <<variant, streams, chState, chSid, chListener, connectPc, frames, msg, events>>

\* a handler registered with mcp.tool is invoked while handlePostMessage runs
ToolStart(m, op) ==
  /\ msg[m].pc = "primary"
  /\ tool.op = "none"
  /\ tool' = StartFetch([NoTool EXCEPT !.op = op, !.m = m], FirstFn(op), "Delhi")
  /\ UNCHANGED Router

\* the fallback calls runChatLLM ("send") or runWithTools: first provider request
FallbackStart(m) ==
  /\ msg[m].pc = "fallback"
  /\ tool.op = "none"
  /\ tool' = [NoTool EXCEPT !.op = IF variant = "send" THEN "runChatLLM" ELSE "runWithTools",
                            !.m = m, !.pc = "first", !.provider = 1]
  /\ UNCHANGED Router

\* the first completion resolved
FirstCompletion(reply) ==
  /\ tool.pc = "first"
  /\ tool.op = "runChatLLM" => reply.name = ""
  /\ tool' =
       LET t == [tool EXCEPT !.call = reply] IN
       IF reply.name \notin KnownTools(variant) THEN Finish(t, Answer(reply.content))
       ELSE IF reply.args = "notJson" THEN Finish(t, Throw(SyntaxError))
       ELSE StartFetch(t, IF reply.name = "getWeather" THEN "getWeather" ELSE "fetchPSToken",
                       ArgOf(reply.args))
  /\ UNCHANGED Router

\* the second completion resolved
SecondCompletion(content) ==
  /\ tool.pc = "second"
  /\ tool' = Finish([tool EXCEPT !.second = content], Answer(content))
  /\ UNCHANGED Router

\* openai.chat.completions.create rejected
ProviderFails ==
  /\ tool.pc \in {"first", "second"}
  /\ tool' = Finish(tool, Throw(<<"provider error">>))
  /\ UNCHANGED Router

\* the upstream's response arrives: fetch resolves.  getWeather tests res.ok at
\* once; the other functions go on to read the body
Respond(status, body) ==
  /\ tool.pc = "fetch"
  /\ body \in Bodies(tool.fn)
  /\ tool' =
       LET t == [tool EXCEPT !.status = status, !.body = body] IN
       IF tool.fn = "getWeather" /\ ~Ok(status) THEN Settle(t, "done")
       ELSE [t EXCEPT !.pc = "body"]
  /\ UNCHANGED Router

\* the request fails below HTTP: fetch rejects
NetworkError ==
  /\ tool.pc = "fetch"
  /\ tool' = Settle(tool, "neterror")
  /\ UNCHANGED Router

\* res.json() / res.text() settles
BodyRead ==
  /\ tool.pc = "body"
  /\ tool' = Settle(tool, "done")
  /\ UNCHANGED Router

\* the timer's callback runs: controller.abort(new Error("Request timed out"));
\* the pending await rejects and the function runs to its end in the same turn.
\* A timer that is still armed when nothing is awaited fires all the same: its
\* abort finds no pending request
TimerFires ==
  /\ tool.timer = "armed"
  /\ tool' =
       IF tool.pc = "fetch" THEN Settle(tool, "abortFetch")
       ELSE IF tool.pc = "body" THEN Settle(tool, "abortBody")
       ELSE [tool EXCEPT !.timer = "fired"]
  /\ UNCHANGED Router

\* the upstream answers a request that was aborted before its response: the
\* promise of that fetch is settled already, nothing reads the response
LateResponse ==
  /\ tool.calls # <<>>
  /\ tool.calls[Len(tool.calls)].ev = "abortFetch"
  /\ ~tool.late
  /\ tool' = [tool EXCEPT !.late = TRUE]
  /\ UNCHANGED Router

\* await runChatLLM / runWithTools resolved: the handler writes the reply
RunResolved(m) ==
  /\ tool.m = m /\ tool.op \in FallbackOps /\ tool.pc = "returned"
  /\ FallbackResolved(m)

\* await runChatLLM / runWithTools rejected: so does the handler
RunRejected(m) ==
  /\ tool.m = m /\ tool.op \in FallbackOps /\ tool.pc = "thrown"
  /\ FallbackRejected(m)

\* one session and one inbound message, with the tool calls made for it
ToolNext ==
  \/ GetSse(1, "a")
  \/ \E content \in Contents :
       PostMessage(1, Request(Undefined, Undefined, Undefined, "a"), content)
  \/ PrimaryReturn(1)
  \/ ClientClose(1)
  \/ CloseEvent(1)
  \/ \E op \in DirectOps : ToolStart(1, op)
  \/ FallbackStart(1)
  \/ \E reply \in Replies : FirstCompletion(reply)
  \/ \E content \in {Undefined, "text"} : SecondCompletion(content)
  \/ ProviderFails
  \/ \E status \in Statuses, body \in AllBodies : Respond(status, body)
  \/ NetworkError
  \/ BodyRead
  \/ TimerFires
  \/ LateResponse
  \/ RunResolved(1)
  \/ RunRejected(1)

ToolSpec == Init /\ [][ToolNext]_vars

\* a timer set with setTimeout fires unless it is cleared first
ToolFairSpec == ToolSpec /\ WF_vars(TimerFires)

\* ------------------------------------------------------------- properties
FramesOf(c, m) == {i \in DOMAIN frames[c] : frames[c][i].m = m}
DoneFramesOf(c, m) == {i \in FramesOf(c, m) : frames[c][i].done}

\* C1: for every inbound message, at most one frame with done=true is sent on
\* the channel, whatever callbacks fire and whether or not the fallback runs.
C1_AtMostOneDoneFrame ==
  \A c \in Chan, m \in Msg : Cardinality(DoneFramesOf(c, m)) <= 1

\* C2: the done:true frame of a message is its last frame: no frame of the same
\* message follows a done:true frame on the channel.
C2_DoneFrameIsLast ==
  \A c \in Chan : \A i, j \in DOMAIN frames[c] :
    (i < j /\ frames[c][i].m = frames[c][j].m) => ~frames[c][i].done

\* C3: once the handler of a message has finished, a message with at least one
\* frame has a done:true frame (a message with no frame at all is allowed).
C3_FramesEndWithDone ==
  \A m \in Msg : msg[m].pc \in {"done", "failed"} =>
    \A c \in Chan : FramesOf(c, m) # {} => DoneFramesOf(c, m) # {}

\* C4: a message whose session id is not in the registry is answered 202 at
\* once: no frame, no provider call, no tool, and the registry stays as it was.
C4_MissingSessionIs202 ==
  [][\A m \in Msg :
       (msg[m].pc = "idle" /\ msg'[m].pc # "idle" /\ ~MapHas(streams, msg'[m].id))
         => /\ msg'[m].status = 202
            /\ msg'[m].pc = "done"
            /\ frames' = frames
            /\ streams' = streams]_vars

\* C5: every entry of the registry refers to a channel whose "close" event has
\* not been emitted.
C5_EntriesAreOpen ==
  \A k \in Keys : MapHas(streams, k) => chState[MapGet(streams, k)] # "closed"

\* C6: at most one open channel exists per session id.
C6_OneOpenChannelPerId ==
  \A c, d \in Chan :
    (c # d /\ chState[c] = "open" /\ chState[d] = "open") => chSid[c] # chSid[d]

\* C7: an entry of the registry is never rebound to another channel: a GET for
\* an id that is present leaves the entry on the original channel.
C7_NoSilentReplace ==
  [][\A k \in Keys :
       (MapHas(streams, k) /\ MapHas(streams', k)) => streams'[k] = streams[k]]_vars

\* a "close" event whose listener is registered is emitted for channel c
CloseListenerRuns(c) ==
  chState[c] \in {"open", "closing"} /\ chState'[c] = "closed" /\ chListener[c]

\* C8: removing an id is idempotent: the listener's delete leaves the id absent
\* and every other entry as it was, changes nothing when the id is already
\* absent, and puts no frame on any channel.
C8_RemoveIdempotent ==
  [][\A c \in Chan : CloseListenerRuns(c) =>
       /\ ~MapHas(streams', chSid[c])
       /\ \A k \in Keys \ {chSid[c]} : streams'[k] = streams[k]
       /\ (~MapHas(streams, chSid[c]) => streams' = streams)
       /\ frames' = frames]_vars

\* the id of some session has been removed twice (two channels opened under
\* it, both closed with their listeners registered)
C8_Witness ==
  \E c, d \in Chan :
    /\ c # d /\ chSid[c] = chSid[d]
    /\ chState[c] = "closed" /\ chState[d] = "closed"
    /\ chListener[c] /\ chListener[d]
    /\ \E e \in Chan : frames[e] # <<>>

\* C9: GET /sse without an id answers 400 and leaves the registry as it was;
\* with an id it registers the session, and the lookup of that id succeeds for
\* as long as the channel stays open.
C9_SseRegistersUntilClose ==
  [][\A c \in Chan :
       /\ (chState[c] = "none" /\ chState'[c] = "rejected") => streams' = streams
       /\ (chState[c] = "none" /\ chState'[c] = "open" /\ chSid'[c] \in SseIds)
            => MapHas(streams', chSid'[c])
       /\ (chState[c] = "open" /\ chState'[c] = "open" /\ chSid[c] \in SseIds
             /\ MapHas(streams, chSid[c]))
            => MapHas(streams', chSid[c])]_vars

\* C10: when handlePostMessage returns, the fallback starts if and only if the
\* primary path produced nothing and the content has text after trimming; with
\* no text and nothing produced the message has no frame.
C10_FallbackIffNothingProduced ==
  [][\A m \in Msg :
       (msg[m].pc = "primary" /\ msg'[m].pc # "primary") =>
         /\ msg'[m].pc = "fallback"
              <=> (msg[m].produced = {} /\ msg[m].content = " hi ")
         /\ (msg[m].produced = {} /\ msg[m].content # " hi ")
              => \A c \in Chan : FramesOf(c, m) = {}]_vars

\* the frames of request m appended to channel c by the step
NewFramesOf(c, m) ==
  {i \in DOMAIN frames'[c] : i > Len(frames[c]) /\ frames'[c][i].m = m}

\* C11: the fallback of a message starts at most once and only when its primary
\* path has finished: it is entered from the primary path alone, the primary
\* path is never re-entered, outside the primary path no primary-path frame of
\* the message is sent, and the fallback sends one frame at most.
C11_FallbackOnceAfterPrimary ==
  [][\A m \in Msg :
       /\ (msg[m].pc # "fallback" /\ msg'[m].pc = "fallback") => msg[m].pc = "primary"
       /\ (msg[m].pc # "primary" /\ msg'[m].pc = "primary") => msg[m].pc = "idle"
       /\ msg[m].pc # "primary" =>
            \A c \in Chan : \A i \in NewFramesOf(c, m) : frames'[c][i].fallback
       /\ \A c \in Chan :
            Cardinality({i \in FramesOf(c, m)' : frames'[c][i].fallback}) <= 1]_vars

\* a fallback frame has been delivered for a request and another request is
\* on its primary path
C11_Witness ==
  \E m, n \in Msg, c \in Chan :
    /\ msg[m].pc = "done" /\ msg[n].pc = "primary"
    /\ \E i \in FramesOf(c, m) : frames[c][i].fallback

\* the text has s among its parts
Mentions(text, s) == \E i \in DOMAIN text : text[i] = s

\* the operation has settled
Settled == tool.pc \in {"returned", "thrown"}

\* C12: a tool invoked through its registered handler with arguments that fit
\* its schema never raises: whatever the upstream answers, its promise does not
\* reject.
C12_ToolNeverThrows == tool.op \in DirectOps => tool.pc # "thrown"

\* the provider asked for a tool that runWithTools does not know
UnknownToolRequested ==
  /\ tool.op = "runWithTools"
  /\ tool.call.name # ""
  /\ tool.call.name \notin KnownTools(variant)

\* C13: when the provider requests a tool whose name is not known, the outcome
\* is the failure "tool not found" and no tool handler is invoked.
C13_UnknownToolFails ==
  (UnknownToolRequested /\ Settled) =>
    /\ Mentions(tool.toolResult, "tool not found") \/ Mentions(tool.out.val, "tool not found")
    /\ tool.calls = <<>>

\* C14: a tool handler is not entered with arguments that did not pass
\* validation: such a call ends as the failure "invalid arguments" and no
\* function of the tool runs.
C14_NoHandlerOnInvalidArgs ==
  (tool.op = "runWithTools" /\ tool.call.name \in KnownTools(variant)
     /\ tool.call.args # "valid") =>
    /\ tool.fn = ""
    /\ Settled => /\ tool.pc = "returned"
                  /\ tool.out.val # <<>> /\ tool.out.val[1] = "invalid arguments: "

\* the finished requests of function fn
CallsOf(fns) == {i \in DOMAIN tool.calls : tool.calls[i].fn \in fns}

\* the text psPost returned is its error text
IsPostFailure(text) == text # <<>> /\ text[1] = "Error fetching tokens - "

\* C15: the integration POST never raises, and a network failure, a non-2xx
\* status, a malformed body and a body without the nested list each end as the
\* error text, which no successful result equals.
C15_PostFailuresAreFailures ==
  \A i \in CallsOf({"psPost"}) :
    LET c == tool.calls[i] IN
    /\ c.out.kind = "value"
    /\ (c.ev = "neterror" \/ ~Ok(c.status) \/ ~c.body.json \/ ~c.body.hasList)
         => IsPostFailure(c.out.val)

\* C16: on a successful response carrying the nested list, psPost returns
\* exactly the first min(5, n) entries of the list, in their order, for every n.
C16_FirstFiveInOrder ==
  \A i \in CallsOf({"psPost"}) :
    LET c == tool.calls[i]
        n == Len(c.body.list)
        k == IF n < 5 THEN n ELSE 5
    IN (c.ev = "done" /\ Ok(c.status) /\ c.body.json /\ c.body.hasList) =>
         /\ c.out.kind = "value"
         /\ Len(c.out.val) = k + 2
         /\ c.out.val[1] = "[" /\ c.out.val[k + 2] = "]"
         /\ \A j \in 1..k : c.out.val[j + 1] = c.body.list[j]

\* psPost has returned for a list longer than five entries that is not in
\* ascending order
C16_Witness ==
  \E i \in CallsOf({"psPost"}) :
    LET c == tool.calls[i] IN
    /\ c.ev = "done" /\ Ok(c.status) /\ c.body.hasList
    /\ Len(c.body.list) > 5 /\ c.body.list[1] # "e1"
    /\ Settled

\* the step ends the request of psPost by the timer's abort
PostAborted ==
  /\ tool.fn = "psPost" /\ tool.timer = "armed"
  /\ Len(tool'.calls) > Len(tool.calls)
  /\ tool'.calls[Len(tool'.calls)].ev \in {"abortFetch", "abortBody"}

\* C17: an integration POST never stays pending: if nothing else ends it the
\* timer fires, and in the step in which the timer fires the request is
\* aborted and the call returns the error text.
C17_PostTimesOut ==
  /\ [][PostAborted => (tool'.pc = "returned" /\ IsPostFailure(tool'.out.val))]_vars
  /\ (tool.fn = "psPost" /\ tool.pc \in {"fetch", "body"})
       ~> (tool.fn = "psPost" /\ tool.pc = "returned")

\* psPost has returned after its timer fired with no response received
C17_Witness ==
  /\ tool.pc = "returned"
  /\ \E i \in CallsOf({"psPost"}) :
       tool.calls[i].ev = "abortFetch" /\ tool.calls[i].status = 0

\* the response lacks a field the exchange is to return
MissingField(c) ==
  IF c.fn = "fetchPSToken" THEN c.body.access_token = Undefined
  ELSE c.body.apiKey = Undefined \/ c.body.accessToken = Undefined

\* C18: a credential exchange whose upstream answers with a non-success status,
\* or with a body that lacks an expected field, ends with an error; it never
\* returns a credential made from a response with a field missing.
C18_CredentialNeedsFields ==
  \A i \in CallsOf(CredFns) :
    LET c == tool.calls[i] IN
    (c.ev = "done" /\ (~Ok(c.status) \/ (c.body.json /\ MissingField(c))))
      => c.out.kind = "error"

\* the prefix the exchange puts before the message of every error it raises
CredPrefix(fn) ==
  IF fn = "fetchPSToken" THEN "fetchPSToken failed: " ELSE "getPSTokenWithApiKey failed: "

\* C19: a credential exchange whose timer fires before the response fails with
\* the error of every other credential failure (same prefix) and the message
\* "Request timed out"; a response that arrives after the abort changes
\* nothing, and the outcome of a finished exchange stays as it is.
C19_TimeoutIsCredentialError ==
  [][/\ \A i \in CallsOf(CredFns)' :
          LET c == tool'.calls[i] IN
          /\ c.out.kind = "error" => c.out.val[1] = CredPrefix(c.fn)
          /\ c.ev = "abortFetch" => c.out = Throw(<<CredPrefix(c.fn), "Request timed out">>)
     /\ (tool'.late /\ ~tool.late) => tool' = [tool EXCEPT !.late = TRUE]
     /\ \A i \in CallsOf(CredFns) : tool'.calls[i] = tool.calls[i]]_vars

\* a response has arrived for a credential exchange that was aborted by its
\* timer, and the call has ended with the error
C19_Witness ==
  /\ tool.late /\ tool.pc = "thrown"
  /\ \E i \in CallsOf(CredFns) : tool.calls[i].ev = "abortFetch"

\* C20: when the credential exchange of a tool call answers 401, the tool call
\* does not raise and its result carries the status, and the message, once
\* its handler has finished, has exactly one done:true frame (the provider
\* answering and the client staying connected).
C20_Unauthorized ==
  \A i \in CallsOf(CredFns) :
    (tool.calls[i].ev = "done" /\ tool.calls[i].status = 401) =>
      /\ tool.op \in DirectOps =>
           tool.pc = "returned" /\ Mentions(tool.out.val, "401")
      /\ tool.op = "runWithTools" => Mentions(tool.toolResult, "401")
      /\ (tool.op = "runWithTools" /\ msg[tool.m].pc \in {"done", "failed"}
            /\ tool.out.val # <<"provider error">> /\ ~msg[tool.m].late)
           => \E c \in Chan : Cardinality(DoneFramesOf(c, tool.m)) = 1

\* the message's turn went through the weather tool and ended: the provider
\* asked for getWeather with fitting arguments, the lookup succeeded, the
\* provider answered again, and the client was connected when the reply was written
WeatherTurn ==
  /\ tool.op = "runWithTools" /\ tool.pc = "returned"
  /\ tool.call.name = "getWeather" /\ tool.call.args = "valid"
  /\ msg[tool.m].pc = "done" /\ ~msg[tool.m].late

\* the message has exactly one frame, on one channel, and it is the assistant's
\* done:true frame with the given content
OneAnswerFrame(m, content) ==
  \E c \in Chan :
    /\ \A d \in Chan \ {c} : FramesOf(d, m) = {}
    /\ Cardinality(FramesOf(c, m)) = 1
    /\ \A i \in FramesOf(c, m) :
         frames[c][i].done /\ frames[c][i].fallback /\ frames[c][i].content = content

C22_HandlerNeverFails ==
  \A m \in Msg :
    /\ msg[m].pc # "failed"
    /\ (msg[m].pc = "done" /\ tool.m = m /\ tool.op \in FallbackOps /\ ~msg[m].late)
         => \E c \in Chan : DoneFramesOf(c, m) # {}

\* C23: every outbound request of a tool has its own armed timer while it is
\* pending, so that no tool call waits forever on an upstream that is silent.
C23_EveryRequestTimed ==
  tool.pc \in {"fetch", "body"} => tool.timer = "armed"

\* the handler of the message is between its lookup and its end
Active(m) == msg[m].pc \in {"primary", "fallback"}

\* C24: two messages of one session are never processed at the same time: the
\* second is not started while the first has not ended.
C24_OneMessagePerSession ==
  \A m, n \in Msg :
    (m # n /\ Active(m) /\ Active(n)) => msg[m].id # msg[n].id

\* C25: a handler that resumes after its channel's "close" event does not write
\* to that channel.
C25_NoSendAfterClose ==
  [][\A m \in Msg :
       (Active(m) /\ chState[msg[m].t] = "closed")
         => ~(msg'[m].late /\ ~msg[m].late)]_vars

\* C26: a message of one session makes progress whatever a message of another
\* session is waiting for: while the other's handler is suspended, the return
\* of handlePostMessage and the fallback's reply of this one can be taken, and
\* a step of one handler leaves the other's locals as they are.
C26_SessionsIndependent ==
  [][\A m, n \in Msg :
       (m # n /\ Active(m) /\ Active(n) /\ msg[m].id # msg[n].id) =>
         /\ msg[n].pc = "primary"  => ENABLED PrimaryReturn(n)
         /\ msg[n].pc = "fallback" => ENABLED FallbackResolved(n)
         /\ msg'[n] # msg[n] => msg'[m] = msg[m]]_vars

\* while the message of one session waits for its fallback's reply, a message
\* posted later to another session has been answered with a done:true frame
C26_Witness ==
  \E m, n \in Msg, c \in Chan :
    /\ m < n /\ msg[m].pc = "fallback" /\ msg[n].pc = "done"
    /\ chSid[c] # msg[m].id /\ chState[msg[m].t] = "open"
    /\ \E i \in DoneFramesOf(c, n) : frames[c][i].fallback

\* the requests of tools.ts the operation has issued so far, in order
IssuedFns ==
  [i \in DOMAIN tool.calls |-> tool.calls[i].fn]
    \o (IF tool.pc \in {"fetch", "body"} THEN <<tool.fn>> ELSE <<>>)

\* C27: a run of runWithTools queries the provider at most twice and runs at
\* most one tool.  A first reply without a known tool call ends the run with
\* one query and no tool; a first reply with a known tool call has that tool
\* run once, its result handed to the provider in exactly one more query, and
\* the second reply returned as the answer.
C27_TwoQueriesOneTool ==
  tool.op = "runWithTools" =>
    /\ tool.provider <= 2 /\ Len(IssuedFns) <= 1
    /\ (Settled /\ tool.call.name \notin KnownTools(variant)) =>
         (tool.provider = 1 /\ IssuedFns = <<>>)
    /\ (Settled /\ tool.call.name \in KnownTools(variant)) =>
         /\ tool.provider = 2
         /\ Len(tool.calls) = 1
         /\ tool.toolResult # <<>>
         /\ tool.pc = "returned" =>
              tool.out.val = <<IF tool.second = Undefined THEN "(no answer)"
                               ELSE tool.second>>

C29_FramesOnOwnChannel ==
  [][\A m \in Msg :
       /\ (msg[m].pc = "idle" /\ Active(m)') =>
            (msg'[m].t = streams[msg'[m].id] /\ chSid[msg'[m].t] = msg'[m].id)
       /\ (Active(m) /\ Active(m)') => (msg'[m].t = msg[m].t /\ msg'[m].id = msg[m].id)
       /\ \A c \in Chan : NewFramesOf(c, m) # {} =>
            (Active(m) /\ c = msg[m].t /\ chSid[c] = msg[m].id)]_vars

\* messages of two sessions have been in progress together and each has a frame
\* on the channel of its own session
C29_Witness ==
  \E m, n \in Msg, c, d \in Chan :
    /\ m # n /\ c # d /\ chSid[c] # chSid[d]
    /\ Active(m) /\ msg[m].t = c /\ FramesOf(c, m) # {}
    /\ FramesOf(d, n) # {} /\ FramesOf(c, n) = {} /\ FramesOf(d, m) = {}

\* C30: the close of a channel removes its own entry only: when the entry of
\* its session id is another channel that is still open, that channel stays
\* registered.
C30_CloseKeepsNewerChannel ==
  [][\A c \in Chan :
       (CloseListenerRuns(c) /\ MapHas(streams, chSid[c])
          /\ MapGet(streams, chSid[c]) # c /\ chState[MapGet(streams, chSid[c])] = "open")
         => MapGet(streams', chSid[c]) = MapGet(streams, chSid[c])]_vars

\* the functions of tools.ts that arm a deadline timer
TimedFns == CredFns \cup {"psPost"}

\* the exit path a logged call took
ExitPath(c) ==
  IF c.ev \in {"abortFetch", "abortBody"} THEN "abort"
  ELSE IF c.ev = "neterror" THEN "network"
  ELSE IF ~Ok(c.status) THEN "http"
  ELSE IF ~c.body.json THEN "parse"
  ELSE "success"

\* C31: in the credential exchanges and the integration POST the timer is
\* cleared on every exit path: every finished call of these functions left its
\* timer cleared, a timer is armed only while its request is awaited, and no
\* timer ever fires after its call has ended
C31_TimerClearedOnExit ==
  /\ \A i \in CallsOf(TimedFns) : tool.calls[i].timer = "cleared"
  /\ tool.timer = "armed" => (tool.pc \in {"fetch", "body"} /\ tool.fn \in TimedFns)
  /\ tool.timer # "fired"

\* getEmployeeDetails ended after a credential exchange that succeeded and a
\* POST that was aborted by its timer: both timers are cleared
C31_Witness ==
  /\ Settled
  /\ Len(tool.calls) = 2
  /\ ExitPath(tool.calls[1]) = "success" /\ tool.calls[1].fn = "getPSTokenWithApiKey"
  /\ ExitPath(tool.calls[2]) = "abort" /\ tool.calls[2].fn = "psPost"
  /\ tool.calls[1].timer = "cleared" /\ tool.calls[2].timer = "cleared"
  /\ tool.timer = "cleared"

\* a terminal frame has been delivered on channel c
TerminalSent(c) == \E m \in Msg : DoneFramesOf(c, m) # {}

\* the frames a step appends to channel c
NewFrames(c) == {i \in DOMAIN frames'[c] : i > Len(frames[c])}

\* a request is taken up by the POST handler and carries id
Posted(m, id) == msg[m].pc = "idle" /\ msg'[m].pc # "idle" /\ msg'[m].id = id

\* C32: writeFrame closes the channel if and only if the frame it sends is
\* terminal: a non-terminal frame leaves the channel open and the registry as
\* it was, a terminal frame ends the channel, a channel is ended by the server
\* only with a terminal frame, and a message posted to the id of a channel that
\* got its terminal frame (and was not opened again) is answered 202 without a
\* frame.
C32_TerminalFrameEndsSession ==
  [][variant # "send" =>
       /\ \A c \in Chan : \A i \in NewFrames(c) :
            IF frames'[c][i].done
              THEN chState'[c] # "open"
              ELSE chState'[c] = "open" /\ streams' = streams
       /\ \A c \in Chan : (chState[c] = "open" /\ chState'[c] = "closing") =>
            \E i \in NewFrames(c) : frames'[c][i].done
       /\ \A m \in Msg, c \in Chan :
            (/\ Posted(m, chSid[c])
             /\ TerminalSent(c)
             /\ \A d \in Chan : chSid[d] = chSid[c] => chState[d] # "open")
              => (msg'[m].status = 202 /\ frames' = frames)]_vars

\* a request field that carries a value: set and not the empty string
IsSet(x) == x # Undefined /\ x # ""

\* the id the stated precedence gives: query sessionId, query id, body
\* sessionId, body id, the first that is set; the empty string when none is
Precedence(req) ==
  IF IsSet(req.qSessionId) THEN req.qSessionId
  ELSE IF IsSet(req.qId) THEN req.qId
  ELSE IF IsSet(req.bSessionId) THEN req.bSessionId
  ELSE IF IsSet(req.bId) THEN req.bId
  ELSE ""

\* C33: the id of a posted message is the first of query sessionId, query id,
\* body sessionId, body id that is neither absent nor empty; when none is set
\* the id is the empty string and the reply is 202.
C33_IdPrecedence ==
  [][\A m \in Msg :
       (msg[m].pc = "idle" /\ msg'[m].pc # "idle") =>
         \A req \in Requests, content \in Contents :
           PostMessage(m, req, content) =>
             /\ msg'[m].id = Precedence(req)
             /\ Precedence(req) = "" => msg'[m].status = 202]_vars
====
